---- MODULE Spec2Model ----
(***************************************************************************)
(* A model of the kameo-rpc intranet example: the calculator service       *)
(* (CalculatorActor), the notification service (NotificationActor), the    *)
(* demo client (execute_add .. execute_divide, subscribe_to_push_services) *)
(* and the peers' event loops.                                             *)
(*                                                                         *)
(* Sources: src/examples/intranet_common.rs, intranet_rpc.rs,              *)
(* intranet_client.rs, intranet_server.rs.                                 *)
(***************************************************************************)
EXTENDS Integers, Sequences, FiniteSets, TLC

(***************************************************************************)
(* Bounds of the model.                                                    *)
(***************************************************************************)

\* f64 is modelled as a scaled-down binary64: the finite values are the
\* multiples k/Scale of magnitude at most MaxFinite, plus the two zeros, the
\* two infinities and NaN.  Results are rounded to nearest (ties to even) and
\* overflow to an infinity, as IEEE 754 arithmetic does.
Scale == 2

MaxFinite == 200

\* How many rounds of run_demo_mode's loop the clients run in Spec, all
\* together (the loop itself has no end).
MaxRounds == 2

\* How many asks end in Err (a timeout, a transport error) in Spec.
MaxErrs == 1

\* How many SubscribeDataStream requests the clients send in SpecNotif.
MaxSubs == 2

\* How many iterations each generator loop of the server runs in SpecPush
\* (the loops have no end).
MaxPushes == 2

\* How many notifications are delivered to the clients' handlers in
\* SpecHandler.
MaxDeliveries == 4

(***************************************************************************)
(* f64 values and arithmetic (the +, -, *, /, ==, is_infinite, is_nan and  *)
(* Display used by the handlers of intranet_common.rs).                    *)
(***************************************************************************)

Abs(n) == IF n < 0 THEN -n ELSE n

\* The largest finite magnitude, in units of 1/Scale.
MaxK == MaxFinite * Scale

\* A finite value k/Scale; neg distinguishes -0.0 from +0.0.
Fin(k) == [kind |-> "fin", k |-> k, neg |-> k < 0]

\* The finite value n (an integer).
X(n) == Fin(n * Scale)

\* The finite value n/2 (12.5 is Half(25)).
Half(n) == Fin((n * Scale) \div 2)

Zero == Fin(0)

NegZero == [kind |-> "fin", k |-> 0, neg |-> TRUE]

Inf(neg) == [kind |-> "inf", k |-> 0, neg |-> neg]

NaN == [kind |-> "nan", k |-> 0, neg |-> FALSE]

is_nan(x) == x.kind = "nan"

is_infinite(x) == x.kind = "inf"

is_finite(x) == x.kind = "fin"

\* n/d for n >= 0, d > 0, rounded to the nearest integer, ties to even.
RoundDiv(n, d) ==
    LET q == n \div d
        r == n % d
    IN  IF 2 * r < d THEN q
        ELSE IF 2 * r > d THEN q + 1
        ELSE IF q % 2 = 0 THEN q ELSE q + 1

\* The value of sign neg and magnitude mag/Scale: an infinity when the
\* magnitude is beyond the largest finite value.
Pack(neg, mag) ==
    IF mag > MaxK THEN Inf(neg)
    ELSE [kind |-> "fin", k |-> IF neg THEN -mag ELSE mag, neg |-> neg]

\* f64 ==: NaN equals nothing, -0.0 equals +0.0.
FEq(x, y) ==
    /\ ~is_nan(x)
    /\ ~is_nan(y)
    /\ x.kind = y.kind
    /\ x.k = y.k
    /\ (x.kind = "inf" => x.neg = y.neg)

FNeg(x) ==
    IF is_nan(x) THEN NaN
    ELSE [kind |-> x.kind, k |-> -x.k, neg |-> ~x.neg]

FAdd(x, y) ==
    IF is_nan(x) \/ is_nan(y) THEN NaN
    ELSE IF is_infinite(x) /\ is_infinite(y)
         THEN IF x.neg = y.neg THEN x ELSE NaN
    ELSE IF is_infinite(x) THEN x
    ELSE IF is_infinite(y) THEN y
    ELSE LET s == x.k + y.k
         IN  IF s = 0 THEN [kind |-> "fin", k |-> 0, neg |-> x.neg /\ y.neg]
             ELSE Pack(s < 0, Abs(s))

FSub(x, y) == FAdd(x, FNeg(y))

FMul(x, y) ==
    IF is_nan(x) \/ is_nan(y) THEN NaN
    ELSE IF is_infinite(x) \/ is_infinite(y)
         THEN IF (is_finite(x) /\ x.k = 0) \/ (is_finite(y) /\ y.k = 0)
              THEN NaN
              ELSE Inf(x.neg /= y.neg)
    ELSE Pack(x.neg /= y.neg, RoundDiv(Abs(x.k) * Abs(y.k), Scale))

FDiv(x, y) ==
    IF is_nan(x) \/ is_nan(y) THEN NaN
    ELSE IF is_infinite(x)
         THEN IF is_infinite(y) THEN NaN ELSE Inf(x.neg /= y.neg)
    ELSE IF is_infinite(y) THEN Pack(x.neg /= y.neg, 0)
    ELSE IF y.k = 0
         THEN IF x.k = 0 THEN NaN ELSE Inf(x.neg /= y.neg)
    ELSE Pack(x.neg /= y.neg, RoundDiv(Abs(x.k) * Scale, Abs(y.k)))

\* The decimal digits of r/Scale after the point, at most n of them.
RECURSIVE FracDigits(_, _)
FracDigits(r, n) ==
    IF r = 0 \/ n = 0 THEN ""
    ELSE ToString((r * 10) \div Scale) \o FracDigits((r * 10) % Scale, n - 1)

\* Display for f64 (format!("{}", x)): "NaN", "inf", "-inf", and a finite
\* value without a trailing ".0" (15.0 prints as "15", 12.5 as "12.5").
FmtF64(x) ==
    IF is_nan(x) THEN "NaN"
    ELSE IF is_infinite(x) THEN (IF x.neg THEN "-inf" ELSE "inf")
    ELSE LET m == Abs(x.k)
             r == m % Scale
         IN  (IF x.neg THEN "-" ELSE "")
             \o ToString(m \div Scale)
             \o (IF r = 0 THEN "" ELSE "." \o FracDigits(r, Scale))

(***************************************************************************)
(* Peers, names and messages.                                              *)
(***************************************************************************)

\* The server peer and the client peers (PeerId values).
Server == "server"

Clients == {"c1", "c2"}

Peers == {Server} \cup Clients

\* --name of the server (the CalculatorActor's server_name) and of a client.
ServerName == "calc-server"

ClientName == "calc-client"

StreamType == {"ServerMetrics", "CalculationHistory", "SystemEvents"}

CalcTypes == {"AddRequest", "SubtractRequest", "MultiplyRequest", "DivideRequest"}

\* Option<T>
None == [some |-> FALSE]

Some(v) == [some |-> TRUE, val |-> v]

\* A handler invocation that returned value v, and one that ended without a
\* value (a panic inside handle).
Returned(v) == [returned |-> TRUE, value |-> v]

Panicked == [returned |-> FALSE]

\* The predefined calculations of run_demo_mode.
calculations ==
    << [type |-> "AddRequest",      a |-> X(15),    b |-> X(25)],
       [type |-> "SubtractRequest", a |-> X(100),   b |-> X(35)],
       [type |-> "MultiplyRequest", a |-> Half(25), b |-> X(8)],
       [type |-> "DivideRequest",   a |-> X(144),   b |-> X(12)],
       [type |-> "DivideRequest",   a |-> X(100),   b |-> X(0)] >>

\* The operands SpecCalc draws requests from: the demo's operands, zeros,
\* negative values, the extremes of the finite range and the non-finite
\* values.
Samples ==
    { X(0), NegZero, X(15), X(25), X(100), X(35), Half(25), X(8), X(144), X(12),
      X(-3), Fin(1), Fin(MaxK), Fin(-MaxK), Inf(FALSE), Inf(TRUE), NaN }

VARIABLES
    request_count,      \* CalculatorActor.request_count
    event_count,        \* NotificationActor.event_count
    connected_clients,  \* NotificationActor.connected_clients, a row per entry
    registry,           \* the service registry: {[name, peer]}
    server_pc,          \* where the server's main is
    reqs,               \* request envelopes in flight or in a mailbox
    replies,            \* reply envelopes in flight
    pc,                 \* per client: where its main is
    round,              \* per client: run_demo_mode's round
    idx,                \* per client: the calculation of the round it is at
    call,               \* per client: the ask it is in, or its outcome
    nextId,             \* per client: how many asks it has issued
    conn,               \* the server swarm's open connections (peers)
    closed,             \* history: the subscribed peers whose ConnectionClosed the loop took
    hist,               \* history: per call id, the request and what happened to it
    looping,            \* per peer: its event loop task is in its loop
    last_error,         \* history: per peer, the last error event its loop took
    client_conn,        \* per client: its swarm's connection to the server is open
    gen,                \* per generator loop of the server: [running, iter]
    task_counter,       \* push_task_completion_loop's task_counter
    pending,            \* per client and kind: notifications sent to it, not yet handled
    notification_count, \* per client: ClientNotificationHandler.notification_count
    delivered,          \* history: per client and kind, the notifications it handled
    last_emit,          \* history: the last delivery attempt of a generator
    skipped,            \* history: per generator, the deliveries it skipped
    failed_at,          \* history: per peer, the startup step that returned an error
    found,              \* per client: what its last find_calculator_service returned
    dials,              \* per client: the swarm.dial calls it has made
    issued              \* history: the subscription ids the notification service returned

vars == << request_count, event_count, connected_clients, registry, server_pc, reqs,
           replies, pc, round, idx, call, nextId, conn, closed, hist, looping,
           last_error, client_conn, gen, task_counter, pending, notification_count,
           delivered, last_emit, skipped, failed_at, found, dials, issued >>

notifVars == << event_count, connected_clients >>

loopVars == << conn, closed, looping, last_error, client_conn >>

pushVars == << gen, task_counter, pending, notification_count, delivered, last_emit,
              skipped >>

auxVars == << failed_at, found, dials, issued >>

flowVars == << pc, round, idx >>

regVars == << registry, server_pc >>

(***************************************************************************)
(* CalculatorActor: the four handlers.                                     *)
(***************************************************************************)

\* impl Message<AddRequest> for CalculatorActor
handle_AddRequest(msg) ==
    LET result == FAdd(msg.a, msg.b)
    IN  Returned(<< result, FmtF64(msg.a) \o " + " \o FmtF64(msg.b), ServerName >>)

\* A subtract handler that takes its operands in the wrong order.
handle_SubtractRequest_swapped(msg) ==
    LET result == FSub(msg.b, msg.a)
    IN  Returned(<< result, FmtF64(msg.a) \o " - " \o FmtF64(msg.b), ServerName >>)

\* impl Message<SubtractRequest> for CalculatorActor
handle_SubtractRequest(msg) ==
    LET result == FSub(msg.a, msg.b)
    IN  Returned(<< result, FmtF64(msg.a) \o " - " \o FmtF64(msg.b), ServerName >>)

\* impl Message<MultiplyRequest> for CalculatorActor
handle_MultiplyRequest(msg) ==
    LET result == FMul(msg.a, msg.b)
    IN  Returned(<< result, FmtF64(msg.a) \o " × " \o FmtF64(msg.b), ServerName >>)

\* A divide handler without the two checks: the quotient is returned as it is.
handle_DivideRequest_unchecked(msg) ==
    Returned(Some(<< FDiv(msg.a, msg.b),
                     FmtF64(msg.a) \o " ÷ " \o FmtF64(msg.b),
                     ServerName >>))

\* A divide handler that checks the divisor and not the quotient.
handle_DivideRequest_zero_check_only(msg) ==
    IF FEq(msg.b, Zero) THEN Returned(None)
    ELSE handle_DivideRequest_unchecked(msg)

\* A divide handler that divides the divisor by the dividend.
handle_DivideRequest_swapped(msg) ==
    IF FEq(msg.b, Zero) THEN Returned(None)
    ELSE LET result == FDiv(msg.b, msg.a)
         IN  IF is_infinite(result) \/ is_nan(result) THEN Returned(None)
             ELSE Returned(Some(<< result,
                                   FmtF64(msg.a) \o " ÷ " \o FmtF64(msg.b),
                                   ServerName >>))

\* A divide handler that panics on a zero divisor, so that the invocation ends
\* without a reply.
handle_DivideRequest_panics(msg) ==
    IF FEq(msg.b, Zero) THEN Panicked
    ELSE LET result == FDiv(msg.a, msg.b)
         IN  IF is_infinite(result) \/ is_nan(result) THEN Returned(None)
             ELSE Returned(Some(<< result,
                                   FmtF64(msg.a) \o " ÷ " \o FmtF64(msg.b),
                                   ServerName >>))

\* impl Message<DivideRequest> for CalculatorActor
handle_DivideRequest(msg) ==
    IF FEq(msg.b, Zero) THEN Returned(None)
    ELSE LET result == FDiv(msg.a, msg.b)
         IN  IF is_infinite(result) \/ is_nan(result) THEN Returned(None)
             ELSE Returned(Some(<< result,
                                   FmtF64(msg.a) \o " ÷ " \o FmtF64(msg.b),
                                   ServerName >>))

(***************************************************************************)
(* NotificationActor: the subscription table and the subscribe handler.    *)
(***************************************************************************)

\* The peers that have a row in table.
TablePeers(table) == { table[i].peer_id : i \in DOMAIN table }

\* The rows of table whose key is peer.
RowsOf(table, peer) == { i \in DOMAIN table : table[i].peer_id = peer }

\* A table that takes every insert as a new row (a Vec::push).
HashMapInsert_push(table, peer, row) == Append(table, row)

\* A table that keeps the row a key already has (entry(key).or_insert(row)).
HashMapInsert_keep_old(table, peer, row) ==
    IF RowsOf(table, peer) /= {} THEN table ELSE Append(table, row)

\* HashMap::insert keyed by peer: the row of that key is replaced, and a new
\* key gets a new row.  (The table is kept as a sequence of rows so that its
\* size is its number of rows; a HashMap's iteration order is unspecified and
\* nothing here depends on the order.)
HashMapInsert(table, peer, row) ==
    IF RowsOf(table, peer) /= {}
    THEN [i \in DOMAIN table |-> IF table[i].peer_id = peer THEN row ELSE table[i]]
    ELSE Append(table, row)

\* The ClientInfo the handler builds (connected_at, a wall-clock time stamp
\* that nothing reads, is left out).
ClientInfo(msg) ==
    [peer_id |-> msg.client_peer,
     name |-> msg.client_name,
     actor_id |-> 0,
     subscribed_streams |-> << msg.stream_type >>]

\* A subscription id that leaves the counter out.
SubscriptionId_no_counter(peer, count) == "sub-" \o peer

\* format!("sub-{}-{}", msg.client_peer, self.event_count)
SubscriptionId(peer, count) == "sub-" \o peer \o "-" \o ToString(count)

\* A subscribe handler that gives no subscription id to a client it finds no
\* connection to.
handle_SubscribeDataStream_checked(msg, count) ==
    IF msg.client_peer \in conn
    THEN Returned(SubscriptionId(msg.client_peer, count))
    ELSE Panicked

\* impl Message<SubscribeDataStream> for NotificationActor: the reply.
handle_SubscribeDataStream(msg, count) == Returned(SubscriptionId(msg.client_peer, count))

(***************************************************************************)
(* The request/reply path of an ask, as the client's call sites see it.    *)
(***************************************************************************)

\* Result<T, E> of an ask.
Ok(v) == [ok |-> TRUE, val |-> v]

Err == [ok |-> FALSE]

Idle == [st |-> "idle", id |-> 0, type |-> "none", result |-> Err, arm |-> "none"]

CallId(c) == << c, call[c].id >>

\* The arm of the client's match on the result of the ask, named by what it
\* does: "info" (the result is logged), "warn" (the empty divide result),
\* "error" (the call failed), "propagate" (subscribe's `?`).
MatchArm(type, result) ==
    IF type = "SubscribeDataStream"
    THEN IF result.ok THEN "info" ELSE "propagate"
    ELSE IF type = "DivideRequest"
    THEN IF result.ok
         THEN IF result.val.some THEN "info" ELSE "warn"
         ELSE "error"
    ELSE IF result.ok THEN "info" ELSE "error"

\* A client that goes on to its demo loop after a failed subscribe call.
Resume_swallows(c, result) ==
    CASE pc[c] = "await_sub" -> "round"
      [] pc[c] = "await_calc" -> IF idx[c] < Len(calculations) THEN "calc" ELSE "round"
      [] OTHER -> pc[c]

\* A demo loop that a failed calculation ends.
Resume_fails(c, result) ==
    CASE pc[c] = "await_sub" -> IF result.ok THEN "round" ELSE "failed"
      [] pc[c] = "await_calc" ->
            IF ~result.ok THEN "failed"
            ELSE IF idx[c] < Len(calculations) THEN "calc" ELSE "round"
      [] OTHER -> pc[c]

\* Where the client's main goes on once the ask it awaits has resolved:
\* subscribe_to_push_services returns (Ok: on to run_demo_mode, Err: main
\* returns the error), the loop over calculations takes its next element.
\* A caller outside main's flow ("harness") stays where it is.
Resume(c, result) ==
    CASE pc[c] = "await_sub" -> IF result.ok THEN "round" ELSE "failed"
      [] pc[c] = "await_calc" -> IF idx[c] < Len(calculations) THEN "calc" ELSE "round"
      [] OTHER -> pc[c]

ResumeIdx(c) ==
    IF pc[c] = "await_calc" /\ idx[c] < Len(calculations) THEN idx[c] + 1 ELSE idx[c]

\* remote_ref.ask(&msg): the request goes out, the caller awaits.
Ask(c, type, msg) ==
    /\ call[c].st /= "waiting"
    /\ call' = [call EXCEPT ![c] =
                   [st |-> "waiting", id |-> nextId[c], type |-> type,
                    result |-> Err, arm |-> "none"]]
    /\ nextId' = [nextId EXCEPT ![c] = @ + 1]
    /\ reqs' = reqs \cup {[id |-> << c, nextId[c] >>, type |-> type, msg |-> msg]}
    /\ hist' = [id \in DOMAIN hist \cup {<< c, nextId[c] >>} |->
                   IF id = << c, nextId[c] >>
                   THEN [type |-> type, msg |-> msg, handled |-> 0,
                         produced |-> 0, observed |-> 0, err |-> FALSE]
                   ELSE hist[id]]
    /\ UNCHANGED << replies, request_count, notifVars, regVars, loopVars, pushVars, auxVars, round >>

\* .await resolves to Ok(reply): the reply of this call arrived in time.
AskOk(c) ==
    /\ call[c].st = "waiting"
    /\ \E rep \in replies :
          /\ rep.id = CallId(c)
          /\ replies' = replies \ {rep}
          /\ call' = [call EXCEPT ![c].st = "done",
                                  ![c].result = Ok(rep.body),
                                  ![c].arm = MatchArm(call[c].type, Ok(rep.body))]
          /\ hist' = [hist EXCEPT ![rep.id].observed = @ + 1]
          /\ pc' = [pc EXCEPT ![c] = Resume(c, Ok(rep.body))]
          /\ idx' = [idx EXCEPT ![c] = ResumeIdx(c)]
    /\ UNCHANGED << request_count, notifVars, regVars, reqs, nextId, loopVars, pushVars, auxVars, round >>

\* .await resolves to Err: the request timed out or the transport failed.
AskErr(c) ==
    /\ call[c].st = "waiting"
    /\ call' = [call EXCEPT ![c].st = "done",
                            ![c].result = Err,
                            ![c].arm = MatchArm(call[c].type, Err)]
    /\ hist' = [hist EXCEPT ![CallId(c)].err = TRUE]
    /\ pc' = [pc EXCEPT ![c] = Resume(c, Err)]
    /\ idx' = [idx EXCEPT ![c] = ResumeIdx(c)]
    /\ UNCHANGED << request_count, notifVars, regVars, reqs, replies, nextId,
                    loopVars, pushVars, auxVars, round >>

\* The reply envelope a handler invocation leaves behind: one if it returned.
Respond(e, out) ==
    IF out.returned THEN {[id |-> e.id, body |-> out.value]} ELSE {}

Record(e, out) ==
    [hist EXCEPT ![e.id].handled = @ + 1,
                 ![e.id].produced = @ + Cardinality(Respond(e, out))]

\* A counter that a Divide answered with the empty result does not raise
\* (the increment placed after the early returns).
CountRequest_skips_none(e, out) ==
    IF e.type = "DivideRequest" /\ out.returned /\ ~out.value.some
    THEN request_count
    ELSE request_count + 1

\* self.request_count += 1, the first statement of each of the four
\* handlers: the counter after the handler has run for request e.
CountRequest(e, out) == request_count + 1

\* The calculator takes request e from its mailbox; the handler counts it and
\* ends with outcome out.
CalcHandled(e, out) ==
    /\ request_count' = CountRequest(e, out)
    /\ reqs' = reqs \ {e}
    /\ replies' = replies \cup Respond(e, out)
    /\ hist' = Record(e, out)
    /\ UNCHANGED << notifVars, regVars, call, nextId, loopVars, pushVars, auxVars, flowVars >>

HandleAdd ==
    \E e \in reqs :
       e.type = "AddRequest" /\ CalcHandled(e, handle_AddRequest(e.msg))

HandleSubtract ==
    \E e \in reqs :
       e.type = "SubtractRequest" /\ CalcHandled(e, handle_SubtractRequest(e.msg))

HandleMultiply ==
    \E e \in reqs :
       e.type = "MultiplyRequest" /\ CalcHandled(e, handle_MultiplyRequest(e.msg))

HandleDivide ==
    \E e \in reqs :
       e.type = "DivideRequest" /\ CalcHandled(e, handle_DivideRequest(e.msg))

\* impl Message<SubscribeDataStream> for NotificationActor
HandleSubscribe ==
    \E e \in reqs :
       /\ e.type = "SubscribeDataStream"
       /\ event_count' = event_count + 1
       /\ connected_clients' =
             HashMapInsert(connected_clients, e.msg.client_peer, ClientInfo(e.msg))
       /\ reqs' = reqs \ {e}
       /\ replies' = replies \cup Respond(e, handle_SubscribeDataStream(e.msg, event_count))
       /\ hist' = Record(e, handle_SubscribeDataStream(e.msg, event_count))
       /\ issued' = LET out == handle_SubscribeDataStream(e.msg, event_count)
                     IN  IF out.returned THEN Append(issued, out.value) ELSE issued
       /\ UNCHANGED << request_count, regVars, call, nextId, loopVars, pushVars,
                       failed_at, found, dials, flowVars >>

(***************************************************************************)
(* The server's event loop (RpcServer::spawn_event_loop).                  *)
(***************************************************************************)

ServerEventKinds ==
    { "Registry", "Messaging", "NewListenAddr", "ConnectionEstablished",
      "ConnectionClosed", "IncomingConnection", "IncomingConnectionError",
      "Other" }

\* A ConnectionClosed arm that drops the closed peer's subscription.
ClosedArmClients_remove(table, peer) ==
    SelectSeq(table, LAMBDA row : row.peer_id /= peer)

\* What the ConnectionClosed arm leaves of the subscription table: the arm
\* logs and touches nothing.
ClosedArmClients(table, peer) == table

\* The event kinds whose arm logs an error.
ErrorEventKinds == {"IncomingConnectionError", "OutgoingConnectionError"}

\* A server loop that leaves its loop on a connection error.
ServerArm_breaks(kind) ==
    IF kind = "IncomingConnectionError" THEN "break" ELSE "continue"

\* What the arm of an event kind does to the server's loop: every arm logs
\* and falls through to the next iteration.
ServerArm(kind) == "continue"

\* last_error after an event of the given kind taken by peer.
NoteError(peer, kind) ==
    IF kind \in ErrorEventKinds THEN [last_error EXCEPT ![peer] = kind] ELSE last_error

\* One iteration of the loop: the swarm hands over one event (its connection
\* set has changed for an established or closed connection) and the arm of
\* the event's kind runs; every arm only logs.
ServerEventLoop ==
    \E kind \in ServerEventKinds, p \in Clients :
       /\ looping[Server]
       /\ kind = "ConnectionEstablished" => p \notin conn
       /\ kind = "ConnectionClosed" => p \in conn
       /\ conn' = CASE kind = "ConnectionEstablished" -> conn \cup {p}
                    [] kind = "ConnectionClosed" -> conn \ {p}
                    [] OTHER -> conn
       /\ closed' = IF kind = "ConnectionClosed" /\ p \in TablePeers(connected_clients)
                    THEN closed \cup {p}
                    ELSE closed
       /\ connected_clients' =
             IF kind = "ConnectionClosed"
             THEN ClosedArmClients(connected_clients, p)
             ELSE connected_clients
       /\ looping' = [looping EXCEPT ![Server] = ServerArm(kind) = "continue"]
       /\ last_error' = NoteError(Server, kind)
       /\ UNCHANGED << request_count, event_count, regVars, reqs, replies,
                       call, nextId, hist, flowVars, client_conn, pushVars, auxVars >>

(***************************************************************************)
(* A client's event loop (RpcClient::spawn_event_loop).                    *)
(***************************************************************************)

ClientEventKinds ==
    { "Registry", "Messaging", "NewListenAddr", "ConnectionEstablished",
      "ConnectionClosed", "OutgoingConnectionError", "Dialing", "Other" }

\* A client loop that dials the server again after a failed dial.
ClientArm_redials(kind) ==
    IF kind = "OutgoingConnectionError" THEN "redial" ELSE "continue"

\* What the arm of an event kind does to a client's loop: every arm logs and
\* falls through to the next iteration; none calls swarm.dial.
ClientArm(kind) == "continue"

\* One iteration of client c's loop, which runs once RpcClient::new has
\* returned the client that spawn_event_loop consumes.
ClientEventLoop(c) ==
    \E kind \in ClientEventKinds :
       /\ looping[c]
       /\ pc[c] /= "new"
       /\ failed_at[c] /= "new"
       /\ kind = "ConnectionEstablished" => ~client_conn[c]
       /\ kind = "ConnectionClosed" => client_conn[c]
       /\ client_conn' = CASE kind = "ConnectionEstablished" -> [client_conn EXCEPT ![c] = TRUE]
                           [] kind = "ConnectionClosed" -> [client_conn EXCEPT ![c] = FALSE]
                           [] OTHER -> client_conn
       /\ looping' = [looping EXCEPT ![c] = ClientArm(kind) /= "break"]
       /\ dials' = [dials EXCEPT ![c] = IF ClientArm(kind) = "redial" THEN @ + 1 ELSE @]
       /\ last_error' = NoteError(c, kind)
       /\ UNCHANGED << request_count, notifVars, regVars, reqs, replies, call,
                       nextId, hist, flowVars, conn, closed, pushVars, failed_at,
                       found, issued >>

(***************************************************************************)
(* The client's calculation calls (execute_add .. execute_divide) and its  *)
(* subscribe request.                                                      *)
(***************************************************************************)

CalcMsg(c, a, b) == [a |-> a, b |-> b, from_peer |-> c, from_name |-> ClientName]

execute_add(c, a, b) == Ask(c, "AddRequest", CalcMsg(c, a, b))

execute_subtract(c, a, b) == Ask(c, "SubtractRequest", CalcMsg(c, a, b))

execute_multiply(c, a, b) == Ask(c, "MultiplyRequest", CalcMsg(c, a, b))

execute_divide(c, a, b) == Ask(c, "DivideRequest", CalcMsg(c, a, b))

\* notification_actor.ask(&SubscribeDataStream {..}) with the given stream
\* type (the demo client sends ServerMetrics).
SendSubscribe(c, stream) ==
    Ask(c, "SubscribeDataStream",
        [client_peer |-> c, client_name |-> ClientName, stream_type |-> stream])

(***************************************************************************)
(* The mains: the server registers its two services; a client registers    *)
(* its notification handler, subscribes and runs the demo rounds.          *)
(***************************************************************************)

Providers(name) == { e.peer : e \in { r \in registry : r.name = name } }

\* actor_ref.register(name): the name resolves to the peer's actor from now on.
Register(name, peer) == registry' = registry \cup {[name |-> name, peer |-> peer]}

\* register_calculator_service
RegisterCalculator ==
    /\ server_pc = "register_calculator"
    /\ Register("calculator", Server)
    /\ server_pc' = "register_notification"
    /\ UNCHANGED << request_count, notifVars, reqs, replies, call, nextId,
                    loopVars, pushVars, auxVars, hist, flowVars >>

\* register_notification_service, then start_push_services
RegisterNotification ==
    /\ server_pc = "register_notification"
    /\ Register("notification", Server)
    /\ server_pc' = "ready"
    /\ UNCHANGED << request_count, notifVars, reqs, replies, call, nextId,
                    loopVars, pushVars, auxVars, hist, flowVars >>

(***************************************************************************)
(* lookup_all and the scan of find_calculator_service.                     *)
(***************************************************************************)

\* The orders a set of peers can be enumerated in.
RECURSIVE Orders(_)
Orders(S) ==
    IF S = {} THEN { << >> }
    ELSE UNION { { << p >> \o rest : rest \in Orders(S \ {p}) } : p \in S }

\* What the stream of RemoteActorRef::lookup_all(name) yields, item by item
\* (each item is a Result): Ok(handle) for each endpoint registered under
\* the name, in some order; or such an enumeration with an Err item at some
\* place, after which the stream ends or goes on with the handles left.
LookupAll(name) ==
    LET ok(order) == [i \in DOMAIN order |-> Ok(order[i])]
        n_max == Cardinality(Providers(name))
    IN  { ok(order) : order \in Orders(Providers(name)) }
        \cup { SubSeq(ok(order), 1, n) \o << Err >> :
                  order \in Orders(Providers(name)), n \in 0..n_max }
        \cup { SubSeq(ok(order), 1, n) \o << Err >> \o SubSeq(ok(order), n + 1, n_max) :
                  order \in Orders(Providers(name)), n \in 0..n_max }

\* A scan that returns the first handle, the caller's own included.
find_first_any(stream, local_peer_id) ==
    IF stream = << >> THEN None
    ELSE IF ~Head(stream).ok THEN None
    ELSE Some(Head(stream).val)

\* A scan that falls back to the caller's own peer when it finds nothing.
RECURSIVE find_first_or_self(_, _)
find_first_or_self(stream, local_peer_id) ==
    IF stream = << >> THEN Some(local_peer_id)
    ELSE IF ~Head(stream).ok THEN Some(local_peer_id)
    ELSE IF Head(stream).val = local_peer_id
         THEN find_first_or_self(Tail(stream), local_peer_id)
         ELSE Some(Head(stream).val)

\* find_calculator_service's loop over the stream:
\*   while let Ok(Some(calculator)) = calculators.try_next().await {
\*       if calculator.id().peer_id() == Some(&local_peer_id) { continue; }
\*       return Some(calculator); }
\*   None
RECURSIVE find_first(_, _)
find_first(stream, local_peer_id) ==
    IF stream = << >> THEN None
    ELSE IF ~Head(stream).ok THEN None
    ELSE IF Head(stream).val = local_peer_id
         THEN find_first(Tail(stream), local_peer_id)
         ELSE Some(Head(stream).val)

\* A find_calculator_service that hands out a handle to the server's
\* calculator kept from before, whatever the registry holds now.
find_calculator_service_cached(local_peer_id) == { Some(Server) }

\* find_calculator_service(local_peer_id): what a call can return now, one
\* result for each stream lookup_all("calculator") can yield.
find_calculator_service(local_peer_id) ==
    { find_first(stream, local_peer_id) : stream \in LookupAll("calculator") }

\* subscribe_to_push_services, step 2: handler_ref.register("client_handler")
RegisterHandler(c) ==
    /\ pc[c] = "register"
    /\ Register("client_handler", c)
    /\ pc' = [pc EXCEPT ![c] = "lookup"]
    /\ UNCHANGED << request_count, notifVars, server_pc, reqs, replies, call,
                    nextId, loopVars, pushVars, auxVars, hist, round, idx >>

\* A startup that goes on to the next registration after a failed one.
OnStartupError_ignored(step) ==
    IF step = "register_calculator" THEN "register_notification" ELSE "failed"

\* A client that goes on to the lookup after its register call failed.
OnStartupError_skips_register(step) ==
    IF step = "register" THEN "lookup" ELSE "failed"

\* Where a main is after a startup step returned an error: `?` returns the
\* error from the setup routine and from main.
OnStartupError(step) == "failed"

\* RpcClient::new (the transport is built, the swarm listens and dials the
\* server), the register call or the lookup returns an error.
SetupFails(c) ==
    /\ pc[c] \in {"new", "register", "lookup"}
    /\ pc' = [pc EXCEPT ![c] = OnStartupError(pc[c])]
    /\ failed_at' = [failed_at EXCEPT ![c] = pc[c]]
    /\ UNCHANGED << request_count, notifVars, regVars, reqs, replies, call,
                    nextId, loopVars, pushVars, found, dials, issued, hist, round, idx >>

\* RpcServer::new (the transport is built, the swarm listens) or a register
\* call of the server returns an error.
ServerSetupFails ==
    /\ server_pc \in {"new", "register_calculator", "register_notification"}
    /\ server_pc' = OnStartupError(server_pc)
    /\ failed_at' = [failed_at EXCEPT ![Server] = server_pc]
    /\ UNCHANGED << request_count, notifVars, registry, reqs, replies, call,
                    nextId, loopVars, pushVars, found, dials, issued, hist, flowVars >>

\* RpcServer::new returns Ok: main goes on to register the services.
RpcServerNew ==
    /\ server_pc = "new"
    /\ server_pc' = "register_calculator"
    /\ UNCHANGED << request_count, notifVars, registry, reqs, replies, call,
                    nextId, loopVars, pushVars, auxVars, hist, flowVars >>

\* RpcClient::new returns Ok: the swarm has dialed the server (swarm.dial,
\* once) and main goes on to subscribe_to_push_services.
RpcClientNew(c) ==
    /\ pc[c] = "new"
    /\ pc' = [pc EXCEPT ![c] = "register"]
    /\ dials' = [dials EXCEPT ![c] = @ + 1]
    /\ UNCHANGED << request_count, notifVars, regVars, reqs, replies, call,
                    nextId, loopVars, pushVars, failed_at, found, issued, hist,
                    round, idx >>

\* A client that gives up when the notification service is not found.
NotificationLookupArm_fails(found_it) ==
    IF found_it THEN "subscribe" ELSE "failed"

\* The match on the lookup's result: Some -> the subscribe request follows,
\* None -> subscribe_to_push_services returns Ok(handler_ref) and main goes on
\* to run_demo_mode.
NotificationLookupArm(found_it) ==
    IF found_it THEN "subscribe" ELSE "round"

\* step 3: RemoteActorRef::<NotificationActor>::lookup("notification"); with
\* None the function returns Ok(handler_ref) and main goes on to the demo.
LookupNotification(c) ==
    /\ pc[c] = "lookup"
    /\ pc' = [pc EXCEPT ![c] = NotificationLookupArm(Providers("notification") /= {})]
    /\ UNCHANGED << request_count, notifVars, regVars, reqs, replies, call,
                    nextId, loopVars, pushVars, auxVars, hist, round, idx >>

\* step 4: the subscribe request for ServerMetrics.
SubscribeMetrics(c) ==
    /\ pc[c] = "subscribe"
    /\ SendSubscribe(c, "ServerMetrics")
    /\ pc' = [pc EXCEPT ![c] = "await_sub"]
    /\ UNCHANGED idx

\* The sum of a counter over a set of peers.
RECURSIVE SumOver(_, _)
SumOver(f, S) ==
    IF S = {} THEN 0
    ELSE LET x == CHOOSE x \in S : TRUE IN f[x] + SumOver(f, S \ {x})

\* run_demo_mode, the head of the loop: the round is counted and the
\* calculator looked up; without one the loop continues with the next round.
DemoRound(c) ==
    /\ pc[c] = "round"
    /\ SumOver(round, Clients) < MaxRounds
    /\ round' = [round EXCEPT ![c] = @ + 1]
    /\ \E calculator \in find_calculator_service(c) :
          IF calculator.some
          THEN /\ pc' = [pc EXCEPT ![c] = "calc"]
               /\ idx' = [idx EXCEPT ![c] = 1]
          ELSE UNCHANGED << pc, idx >>
    /\ UNCHANGED << request_count, notifVars, regVars, reqs, replies, call,
                    nextId, loopVars, pushVars, auxVars, hist >>

\* run_demo_mode, the body of the loop over calculations: the element's
\* operation decides which execute_ function is called.
DemoCalc(c) ==
    /\ pc[c] = "calc"
    /\ LET calc == calculations[idx[c]]
       IN  CASE calc.type = "AddRequest" -> execute_add(c, calc.a, calc.b)
             [] calc.type = "SubtractRequest" -> execute_subtract(c, calc.a, calc.b)
             [] calc.type = "MultiplyRequest" -> execute_multiply(c, calc.a, calc.b)
             [] calc.type = "DivideRequest" -> execute_divide(c, calc.a, calc.b)
    /\ pc' = [pc EXCEPT ![c] = "await_calc"]
    /\ UNCHANGED idx

(***************************************************************************)
(* Harness actions around lookup_all and find_calculator_service.          *)
(***************************************************************************)

\* A peer registers an actor of its own under "calculator".
RegisterCalculatorAt(c) ==
    /\ c \notin Providers("calculator")
    /\ Register("calculator", c)
    /\ UNCHANGED << request_count, notifVars, server_pc, reqs, replies, call,
                    nextId, loopVars, pushVars, auxVars, hist, flowVars >>

\* Client c calls find_calculator_service(c); found keeps what it returned
\* and what was registered at the time.
FindCalculator(c) ==
    \E stream \in LookupAll("calculator") :
       /\ found' = [found EXCEPT ![c] =
                       [called |-> TRUE,
                        result |-> find_first(stream, c),
                        stream |-> stream,
                        registered |-> Providers("calculator")]]
       /\ UNCHANGED << request_count, notifVars, regVars, reqs, replies, call,
                       nextId, loopVars, pushVars, failed_at, dials, issued, hist, flowVars >>

(***************************************************************************)
(* The server's push generators (start_push_services and its three loops)  *)
(* and the client's notification handler (ClientNotificationHandler).      *)
(***************************************************************************)

\* The four notification messages a ClientNotificationHandler takes.
NotificationKinds ==
    {"ServerStatusUpdate", "TaskCompletionNotice", "EventBroadcast", "StreamDataItem"}

\* The loops start_push_services spawns.
Generators == {"status", "task", "event"}

\* The message a generator loop builds and sends.
KindOf(g) ==
    CASE g = "status" -> "ServerStatusUpdate"
      [] g = "task" -> "TaskCompletionNotice"
      [] g = "event" -> "EventBroadcast"

\* RemoteActorRef::lookup(name).await: an error, Ok(None) when nothing is
\* registered under the name, or Ok(Some(handle)) for one of the endpoints
\* registered under it.
LookupOutcomes(name) ==
    {Err} \cup (IF Providers(name) = {}
                THEN {Ok(None)}
                ELSE { Ok(Some(p)) : p \in Providers(name) })

\* client_handler.tell(&msg).send(): the Result the loop throws away.
SendOutcomes == {"sent", "failed"}

LookupFound(lookup) == lookup.ok /\ lookup.val.some

\* A delivery that goes only to clients that have a row in the subscription
\* table.
DeliveryTargets_subscribed(lookup, send) ==
    IF LookupFound(lookup) /\ send = "sent"
       /\ lookup.val.val \in TablePeers(connected_clients)
    THEN {lookup.val.val}
    ELSE {}

\* The endpoints one iteration sends its message to:
\*   if let Ok(Some(client_handler)) = lookup(..).await {
\*       let _ = client_handler.tell(&msg).send(); }
DeliveryTargets(lookup, send) ==
    IF LookupFound(lookup) /\ send = "sent" THEN {lookup.val.val} ELSE {}

\* A loop that returns when the lookup or the send fails.
AfterDelivery_propagates(lookup, send) ==
    IF ~lookup.ok \/ (LookupFound(lookup) /\ send = "failed") THEN "return" ELSE "continue"

\* What the delivery block does to the loop: no outcome leaves it.
AfterDelivery(lookup, send) == "continue"

\* The tag of a lookup outcome: "found", "miss" or "error".
LookupTag(lookup) ==
    IF ~lookup.ok THEN "error" ELSE IF lookup.val.some THEN "found" ELSE "miss"

NoEmit ==
    [gen |-> "none", kind |-> "none", registered |-> {}, lookup |-> "none",
     send |-> "none", targets |-> {}]

\* One iteration of generator loop g with the given outcomes of its lookup
\* and its send.
PushIteration(g, lookup, send) ==
    /\ server_pc = "ready"
    /\ gen[g].running
    /\ gen[g].iter < MaxPushes
    /\ LET targets == DeliveryTargets(lookup, send)
       IN  /\ pending' = [c \in Clients |-> [k \in NotificationKinds |->
                             IF c \in targets /\ k = KindOf(g)
                             THEN pending[c][k] + 1 ELSE pending[c][k]]]
           /\ last_emit' = [gen |-> g, kind |-> KindOf(g),
                            registered |-> Providers("client_handler"),
                            lookup |-> LookupTag(lookup),
                            send |-> IF LookupFound(lookup) THEN send ELSE "none",
                            targets |-> targets]
           /\ skipped' = [skipped EXCEPT ![g] = IF targets = {} THEN @ + 1 ELSE @]
    /\ gen' = [gen EXCEPT ![g] = [running |-> AfterDelivery(lookup, send) = "continue",
                                  iter |-> @.iter + 1]]
    /\ task_counter' = IF g = "task" THEN task_counter + 1 ELSE task_counter
    /\ UNCHANGED << request_count, notifVars, regVars, reqs, replies, call, nextId,
                    hist, flowVars, loopVars, notification_count, delivered, auxVars >>

push_server_status_loop ==
    \E lookup \in LookupOutcomes("client_handler"), send \in SendOutcomes :
       PushIteration("status", lookup, send)

push_task_completion_loop ==
    \E lookup \in LookupOutcomes("client_handler"), send \in SendOutcomes :
       PushIteration("task", lookup, send)

broadcast_system_events_loop ==
    \E lookup \in LookupOutcomes("client_handler"), send \in SendOutcomes :
       PushIteration("event", lookup, send)

\* A status handler that does not count.
handle_ServerStatusUpdate_uncounted(count) == count

\* impl Message<ServerStatusUpdate> for ClientNotificationHandler
handle_ServerStatusUpdate(count) == count + 1

\* impl Message<TaskCompletionNotice> for ClientNotificationHandler
handle_TaskCompletionNotice(count) == count + 1

\* impl Message<EventBroadcast> for ClientNotificationHandler
handle_EventBroadcast(count) == count + 1

\* impl Message<StreamDataItem> for ClientNotificationHandler
handle_StreamDataItem(count) == count + 1

\* The handler's notification_count after a message of kind k.
HandlerCount(k, count) ==
    CASE k = "ServerStatusUpdate" -> handle_ServerStatusUpdate(count)
      [] k = "TaskCompletionNotice" -> handle_TaskCompletionNotice(count)
      [] k = "EventBroadcast" -> handle_EventBroadcast(count)
      [] k = "StreamDataItem" -> handle_StreamDataItem(count)

\* Client c's ClientNotificationHandler takes a delivered message from its
\* mailbox.
HandleNotification(c) ==
    \E k \in NotificationKinds :
       /\ pending[c][k] > 0
       /\ pending' = [pending EXCEPT ![c][k] = @ - 1]
       /\ notification_count' =
             [notification_count EXCEPT ![c] = HandlerCount(k, @)]
       /\ delivered' = [delivered EXCEPT ![c][k] = @ + 1]
       /\ UNCHANGED << request_count, notifVars, regVars, reqs, replies, call,
                       nextId, hist, flowVars, loopVars, gen, task_counter,
                       last_emit, skipped, auxVars >>

(***************************************************************************)
(* Specifications.                                                         *)
(***************************************************************************)

\* The state after construction, with the server's main at step spc, the
\* registry holding reg and the clients' mains at step cpc: the actors are
\* new (CalculatorActor::new, NotificationActor::new,
\* ClientNotificationHandler::new), nothing is in flight, the loops run.
InitAt(spc, reg, cpc) ==
    /\ request_count = 0
    /\ event_count = 0
    /\ connected_clients = << >>
    /\ registry = reg
    /\ server_pc = spc
    /\ reqs = {}
    /\ replies = {}
    /\ pc = [c \in Clients |-> cpc]
    /\ round = [c \in Clients |-> 0]
    /\ idx = [c \in Clients |-> 1]
    /\ call = [c \in Clients |-> Idle]
    /\ nextId = [c \in Clients |-> 0]
    /\ conn = {}
    /\ closed = {}
    /\ hist = << >>
    /\ looping = [p \in Peers |-> TRUE]
    /\ last_error = [p \in Peers |-> "none"]
    /\ client_conn = [c \in Clients |-> FALSE]
    /\ gen = [g \in Generators |-> [running |-> TRUE, iter |-> 0]]
    /\ task_counter = 1
    /\ pending = [c \in Clients |-> [k \in NotificationKinds |-> 0]]
    /\ notification_count = [c \in Clients |-> 0]
    /\ delivered = [c \in Clients |-> [k \in NotificationKinds |-> 0]]
    /\ last_emit = NoEmit
    /\ skipped = [g \in Generators |-> 0]
    /\ failed_at = [p \in Peers |-> "none"]
    /\ found = [c \in Clients |->
                 [called |-> FALSE, result |-> None, stream |-> << >>, registered |-> {}]]
    /\ dials = [c \in Clients |-> IF cpc = "new" THEN 0 ELSE 1]
    /\ issued = << >>

\* Spec: the server and the clients run their mains.
Init == InitAt("register_calculator", {}, "register")

ErrCount == Cardinality({ id \in DOMAIN hist : hist[id].err })

Resolve == \E c \in Clients : AskOk(c)

Fail == \E c \in Clients : ErrCount < MaxErrs /\ AskErr(c)

Next ==
    \/ RegisterCalculator
    \/ RegisterNotification
    \/ \E c \in Clients : RegisterHandler(c)
    \/ \E c \in Clients : SetupFails(c)
    \/ \E c \in Clients : LookupNotification(c)
    \/ \E c \in Clients : SubscribeMetrics(c)
    \/ \E c \in Clients : DemoRound(c)
    \/ \E c \in Clients : DemoCalc(c)
    \/ HandleAdd
    \/ HandleSubtract
    \/ HandleMultiply
    \/ HandleDivide
    \/ HandleSubscribe
    \/ Resolve
    \/ Fail

Spec == Init /\ [][Next]_vars

\* SpecFair: Spec in which whatever can take a step does not wait for ever:
\* the mains and the actors are tasks of a runtime that keeps scheduling them.
SpecFair == Init /\ [][Next]_vars /\ WF_vars(Next)

\* The state with both services of the server registered and the callers
\* outside main's flow, from which SpecCalc and SpecNotif start.
InitReady ==
    InitAt("ready",
           { [name |-> "calculator", peer |-> Server],
             [name |-> "notification", peer |-> Server] },
           "harness")

\* SpecCalc: one caller sends the calculator one request of any type with
\* operands drawn from Samples, and takes the outcome of the ask.
CalcCaller == "c1"

CallAdd ==
    \E a \in Samples, b \in Samples :
       /\ nextId[CalcCaller] = 0
       /\ execute_add(CalcCaller, a, b)
       /\ UNCHANGED << pc, idx >>

CallSubtract ==
    \E a \in Samples, b \in Samples :
       /\ nextId[CalcCaller] = 0
       /\ execute_subtract(CalcCaller, a, b)
       /\ UNCHANGED << pc, idx >>

CallMultiply ==
    \E a \in Samples, b \in Samples :
       /\ nextId[CalcCaller] = 0
       /\ execute_multiply(CalcCaller, a, b)
       /\ UNCHANGED << pc, idx >>

CallDivide ==
    \E a \in Samples, b \in Samples :
       /\ nextId[CalcCaller] = 0
       /\ execute_divide(CalcCaller, a, b)
       /\ UNCHANGED << pc, idx >>

FailAny == \E c \in Clients : AskErr(c)

NextCalc ==
    \/ CallAdd
    \/ CallSubtract
    \/ CallMultiply
    \/ CallDivide
    \/ HandleAdd
    \/ HandleSubtract
    \/ HandleMultiply
    \/ HandleDivide
    \/ Resolve
    \/ FailAny

SpecCalc == InitReady /\ [][NextCalc]_vars

\* SpecNotif: the clients send the notification service subscribe requests
\* for any stream type, while the server's event loop takes events.
SubscribeAny ==
    \E c \in Clients, s \in StreamType :
       /\ SumOver(nextId, Clients) < MaxSubs
       /\ SendSubscribe(c, s)
       /\ UNCHANGED << pc, idx >>

NextNotif ==
    \/ SubscribeAny
    \/ HandleSubscribe
    \/ Resolve
    \/ FailAny
    \/ ServerEventLoop

SpecNotif == InitReady /\ [][NextNotif]_vars

\* SpecLoop: the event loops of the server and of the clients take events.
NextLoop ==
    \/ ServerEventLoop
    \/ \E c \in Clients : ClientEventLoop(c)

SpecLoop == InitReady /\ [][NextLoop]_vars

\* SpecPush: the server is ready and its generator loops run, while the
\* clients register their handlers (or fail to); what the loops send stays
\* in the handlers' mailboxes.
InitPush ==
    InitAt("ready",
           { [name |-> "calculator", peer |-> Server],
             [name |-> "notification", peer |-> Server] },
           "register")

NextPush ==
    \/ \E c \in Clients : RegisterHandler(c)
    \/ \E c \in Clients : SetupFails(c)
    \/ push_server_status_loop
    \/ push_task_completion_loop
    \/ broadcast_system_events_loop

SpecPush == InitPush /\ [][NextPush]_vars

\* SpecPushFair: SpecPush with every generator loop (a spawned task that
\* sleeps and iterates) and every client's setup taking its steps.
SpecPushFair ==
    /\ InitPush
    /\ [][NextPush]_vars
    /\ WF_vars(push_server_status_loop)
    /\ WF_vars(push_task_completion_loop)
    /\ WF_vars(broadcast_system_events_loop)
    /\ \A c \in Clients : WF_vars(RegisterHandler(c) \/ SetupFails(c))

\* SpecPushSub: the generator loops run while clients, their handlers
\* registered, send subscribe requests for any stream type, or none.
InitPushSub ==
    InitAt("ready",
           { [name |-> "calculator", peer |-> Server],
             [name |-> "notification", peer |-> Server] }
           \cup { [name |-> "client_handler", peer |-> c] : c \in Clients },
           "harness")

\* The loops together have iterations left (SpecPushSub bounds their sum).
PushBudget == SumOver([g \in Generators |-> gen[g].iter], Generators) < MaxPushes

NextPushSub ==
    \/ SubscribeAny
    \/ HandleSubscribe
    \/ PushBudget /\ push_server_status_loop
    \/ PushBudget /\ push_task_completion_loop
    \/ PushBudget /\ broadcast_system_events_loop

SpecPushSub == InitPushSub /\ [][NextPushSub]_vars

\* SpecHandler: messages of any kind are delivered to the clients' handlers.
Deliveries ==
    SumOver([c \in Clients |->
                SumOver([k \in NotificationKinds |-> pending[c][k] + delivered[c][k]],
                        NotificationKinds)], Clients)

DeliverAny ==
    \E c \in Clients, k \in NotificationKinds :
       /\ Deliveries < MaxDeliveries
       /\ pending' = [pending EXCEPT ![c][k] = @ + 1]
       /\ UNCHANGED << request_count, notifVars, regVars, reqs, replies, call,
                       nextId, hist, flowVars, loopVars, gen, task_counter,
                       notification_count, delivered, last_emit, skipped, auxVars >>

NextHandler ==
    \/ DeliverAny
    \/ \E c \in Clients : HandleNotification(c)

SpecHandler == InitReady /\ [][NextHandler]_vars

\* SpecStartup: the server's and the clients' mains from their first step,
\* any startup step of which may return an error.
InitStartup == InitAt("new", {}, "new")

NextStartup ==
    \/ RpcServerNew
    \/ ServerSetupFails
    \/ RegisterCalculator
    \/ RegisterNotification
    \/ \E c \in Clients : RpcClientNew(c)
    \/ \E c \in Clients : SetupFails(c)
    \/ \E c \in Clients : RegisterHandler(c)
    \/ \E c \in Clients : LookupNotification(c)
    \/ \E c \in Clients : SubscribeMetrics(c)
    \/ HandleSubscribe
    \/ Resolve
    \/ FailAny

SpecStartup == InitStartup /\ [][NextStartup]_vars

\* SpecRegistry: besides the server, clients register actors of their own
\* under "calculator", and call find_calculator_service.
NextRegistry ==
    \/ \E c \in Clients : RegisterCalculatorAt(c)
    \/ \E c \in Clients : FindCalculator(c)

SpecRegistry == InitReady /\ [][NextRegistry]_vars

\* SpecLookup: the clients, their handlers registered, look the server's
\* services up while the server's main is still registering them: a client
\* looks "notification" up once and, in its demo loop, "calculator".
InitLookup ==
    InitAt("register_calculator",
           { [name |-> "client_handler", peer |-> c] : c \in Clients },
           "lookup")

\* run_demo_mode calls find_calculator_service at the head of its loop.
DemoFind(c) == pc[c] = "round" /\ FindCalculator(c)

NextLookup ==
    \/ RegisterCalculator
    \/ RegisterNotification
    \/ \E c \in Clients : LookupNotification(c)
    \/ \E c \in Clients : SetupFails(c)
    \/ \E c \in Clients : DemoFind(c)

SpecLookup == InitLookup /\ [][NextLookup]_vars

\* SpecDial: the clients are constructed (or their construction fails) and
\* their event loops, like the server's, take events.
InitDial ==
    InitAt("ready",
           { [name |-> "calculator", peer |-> Server],
             [name |-> "notification", peer |-> Server] },
           "new")

NextDial ==
    \/ \E c \in Clients : RpcClientNew(c)
    \/ \E c \in Clients : SetupFails(c)
    \/ \E c \in Clients : ClientEventLoop(c)
    \/ ServerEventLoop

SpecDial == InitDial /\ [][NextDial]_vars

(***************************************************************************)
(* Properties.                                                             *)
(***************************************************************************)

\* The reply envelopes in flight for call id.
InFlight(id) == { rep \in replies : rep.id = id }

\* Call id is the one its caller is in or has just completed.
Current(id) == call[id[1]].st /= "idle" /\ call[id[1]].id = id[2]

Completed(id) == Current(id) /\ call[id[1]].st = "done"

\* The bodies of the replies to call id that exist: those in flight and the
\* one its caller has taken.
ReplyBodies(id) ==
    { rep.body : rep \in InFlight(id) }
    \cup (IF Completed(id) /\ call[id[1]].result.ok
          THEN {call[id[1]].result.val} ELSE {})

AskTypes == CalcTypes \cup {"SubscribeDataStream"}

\* C1: every request sent with ask is answered by at most one reply: the
\* handler invocation it leads to produces exactly one reply, the caller
\* takes at most one reply for it, and takes none when the call ended in Err.
C1_ExactlyOneReply ==
    \A id \in DOMAIN hist :
       /\ hist[id].type \in AskTypes
       /\ hist[id].handled <= 1
       /\ hist[id].produced = hist[id].handled
       /\ hist[id].observed + Cardinality(InFlight(id)) <= hist[id].produced
       /\ hist[id].err => hist[id].observed = 0
       /\ Completed(id) =>
             /\ call[id[1]].result.ok <=> hist[id].observed = 1
             /\ ~call[id[1]].result.ok <=> hist[id].err

\* One client has had a request of each of the five types answered, and a
\* call that ended in Err had its reply produced all the same.
C1_Witness ==
    /\ \E c \in Clients :
          \A t \in AskTypes :
             \E id \in DOMAIN hist :
                id[1] = c /\ hist[id].type = t /\ hist[id].observed = 1
    /\ \E id \in DOMAIN hist : hist[id].err /\ hist[id].produced = 1

IsDivide(id) == hist[id].type = "DivideRequest"

\* C4: a DivideRequest with divisor 0 (either zero), whatever the dividend,
\* is answered with None as an ordinary reply: the caller that takes the reply
\* gets Ok(None) and ends in the "empty result" arm, not in the error arm.
C4_DivideByZeroIsNone ==
    \A id \in DOMAIN hist :
       IsDivide(id) /\ FEq(hist[id].msg.b, Zero) =>
          /\ hist[id].produced = hist[id].handled
          /\ \A rep \in InFlight(id) : rep.body = None
          /\ Completed(id) =>
                IF hist[id].observed = 1
                THEN call[id[1]].result = Ok(None) /\ call[id[1]].arm = "warn"
                ELSE call[id[1]].result = Err /\ call[id[1]].arm = "error"

\* The caller has taken the reply to divide(100, 0).
C4_Witness ==
    \E id \in DOMAIN hist :
       /\ IsDivide(id)
       /\ hist[id].msg.a = X(100)
       /\ hist[id].msg.b = X(0)
       /\ Completed(id)
       /\ call[id[1]].result = Ok(None)
       /\ call[id[1]].arm = "warn"

\* C5: every Divide reply that carries a value carries a finite value, and a
\* DivideRequest whose quotient is an infinity or NaN is answered with None,
\* for finite and for non-finite operands.
C5_DivideValueIsFinite ==
    \A id \in DOMAIN hist :
       IsDivide(id) =>
          \A body \in ReplyBodies(id) :
             /\ body.some => is_finite(body.val[1])
             /\ ~is_finite(FDiv(hist[id].msg.a, hist[id].msg.b)) => body = None

\* The caller has taken None for a quotient of two finite non-zero operands
\* that overflows.
C5_Witness ==
    \E id \in DOMAIN hist :
       /\ IsDivide(id)
       /\ hist[id].msg.a = Fin(MaxK)
       /\ hist[id].msg.b = Fin(1)
       /\ is_infinite(FDiv(Fin(MaxK), Fin(1)))
       /\ Completed(id)
       /\ call[id[1]].result = Ok(None)

FiniteNonZeroDivisor(id) ==
    /\ IsDivide(id)
    /\ is_finite(hist[id].msg.a)
    /\ is_finite(hist[id].msg.b)
    /\ ~FEq(hist[id].msg.b, Zero)

\* v is a/b to the precision of the format: of the quotient's sign and within
\* half a unit in the last place of the exact quotient.
CloseToQuotient(v, a, b) ==
    /\ is_finite(v)
    /\ v.neg = (a.neg /= b.neg)
    /\ 2 * Abs(Abs(v.k) * Abs(b.k) - Abs(a.k) * Scale) <= Abs(b.k)

DivideValueReply(id, body) ==
    /\ body.some
    /\ CloseToQuotient(body.val[1], hist[id].msg.a, hist[id].msg.b)
    /\ body.val[2] = FmtF64(hist[id].msg.a) \o " ÷ " \o FmtF64(hist[id].msg.b)
    /\ body.val[3] = ServerName
    /\ hist[id].msg.a = X(144) /\ hist[id].msg.b = X(12) =>
          body.val = << X(12), "144 ÷ 12", "calc-server" >>

\* C6 as stated: for all finite (a, b) with b /= 0 the reply carries a value
\* equal to a/b, the expression text and the server's name.
C6_Original ==
    \A id \in DOMAIN hist :
       FiniteNonZeroDivisor(id) =>
          \A body \in ReplyBodies(id) : DivideValueReply(id, body)

\* C6, amended: for all finite (a, b) with b /= 0 whose quotient is finite
\* (does not overflow), the reply carries a value equal to a/b to the
\* precision of the format, the text "a ÷ b" and the server's name.
C6_DivideFiniteQuotient ==
    \A id \in DOMAIN hist :
       FiniteNonZeroDivisor(id) /\ is_finite(FDiv(hist[id].msg.a, hist[id].msg.b)) =>
          \A body \in ReplyBodies(id) : DivideValueReply(id, body)

\* The caller has taken (12, "144 ÷ 12", server name) for divide(144, 12).
C6_Witness ==
    \E id \in DOMAIN hist :
       /\ IsDivide(id)
       /\ hist[id].msg.a = X(144)
       /\ hist[id].msg.b = X(12)
       /\ Completed(id)
       /\ call[id[1]].result = Ok(Some(<< X(12), "144 ÷ 12", ServerName >>))
       /\ call[id[1]].arm = "info"

\* v is the sum of the finite values of k-units ka and kb: exact, or the
\* infinity of the sum's sign when the sum is beyond the finite range.
IsSum(v, ka, kb) ==
    IF Abs(ka + kb) > MaxK
    THEN is_infinite(v) /\ v.neg = (ka + kb < 0)
    ELSE is_finite(v) /\ v.k = ka + kb

\* v is the product of finite a and b: within half a unit in the last place
\* of the exact product, or an infinity when the product is beyond the range.
IsProduct(v, a, b) ==
    /\ ~is_nan(v)
    /\ v.neg = (a.neg /= b.neg)
    /\ IF is_finite(v)
       THEN 2 * Abs(Abs(v.k) * Scale - Abs(a.k) * Abs(b.k)) <= Scale
       ELSE 2 * Abs(a.k) * Abs(b.k) >= (2 * MaxK + 1) * Scale

\* v is a (op) b for the operation of the request type.
IsResult(type, v, a, b) ==
    IF is_finite(a) /\ is_finite(b)
    THEN CASE type = "AddRequest" -> IsSum(v, a.k, b.k)
           [] type = "SubtractRequest" -> IsSum(v, a.k, -b.k)
           [] type = "MultiplyRequest" -> IsProduct(v, a, b)
    ELSE /\ ~is_finite(v)
         /\ is_nan(a) \/ is_nan(b) => is_nan(v)

OpSign(type) ==
    CASE type = "AddRequest" -> " + "
      [] type = "SubtractRequest" -> " - "
      [] type = "MultiplyRequest" -> " × "

\* 12.5 is a value of the format.
HalfIsExact == 2 * Half(25).k = 25 * Scale

\* The replies the spec names for the demo's operands.
DemoReply(type, a, b, body) ==
    /\ type = "AddRequest" /\ a = X(15) /\ b = X(25) =>
          body = << X(40), "15 + 25", "calc-server" >>
    /\ type = "SubtractRequest" /\ a = X(100) /\ b = X(35) =>
          body = << X(65), "100 - 35", "calc-server" >>
    /\ type = "MultiplyRequest" /\ a = Half(25) /\ b = X(8) /\ HalfIsExact =>
          body = << X(100), "12.5 × 8", "calc-server" >>

\* C7: for all operands, an AddRequest, SubtractRequest or MultiplyRequest is
\* answered with the tuple (a+b, a-b or a*b; "a <op> b"; the server's name):
\* always a tuple, never the empty outcome, and every invocation answers.
C7_ArithmeticReplies ==
    \A id \in DOMAIN hist :
       hist[id].type \in CalcTypes \ {"DivideRequest"} =>
          /\ hist[id].produced = hist[id].handled
          /\ \A body \in ReplyBodies(id) :
                /\ DOMAIN body = 1..3
                /\ IsResult(hist[id].type, body[1], hist[id].msg.a, hist[id].msg.b)
                /\ body[2] = FmtF64(hist[id].msg.a) \o OpSign(hist[id].type)
                                \o FmtF64(hist[id].msg.b)
                /\ body[3] = ServerName
                /\ DemoReply(hist[id].type, hist[id].msg.a, hist[id].msg.b, body)

\* The caller has taken (40, "15 + 25", server name) for add(15, 25).
C7_Witness ==
    \E id \in DOMAIN hist :
       /\ hist[id].type = "AddRequest"
       /\ hist[id].msg.a = X(15)
       /\ hist[id].msg.b = X(25)
       /\ Completed(id)
       /\ call[id[1]].result = Ok(<< X(40), "15 + 25", ServerName >>)
       /\ call[id[1]].arm = "info"

\* The subscribe requests of client c that the notification service handled.
HandledSubs(c) ==
    { id \in DOMAIN hist :
         /\ id[1] = c
         /\ hist[id].type = "SubscribeDataStream"
         /\ hist[id].handled > 0 }

\* C8: however often a client has subscribed, the subscription table holds
\* exactly one row for it: a further subscribe overwrites the row, and the
\* table's size stays the number of clients that have subscribed.
C8_OneRowPerClient ==
    /\ \A c \in Clients :
          Cardinality(RowsOf(connected_clients, c)) =
             (IF HandledSubs(c) /= {} THEN 1 ELSE 0)
    /\ Len(connected_clients) =
          Cardinality({ c \in Clients : HandledSubs(c) /= {} })

\* A client's two subscribes for the same stream type have both been handled.
C8_Witness ==
    \E c \in Clients :
       /\ Cardinality(HandledSubs(c)) = 2
       /\ \A i \in HandledSubs(c), j \in HandledSubs(c) :
             hist[i].msg.stream_type = hist[j].msg.stream_type
       /\ Len(connected_clients) = 1

\* C9: no step removes a client peer from the subscription table.
C9_SubscriptionsStay ==
    [][TablePeers(connected_clients) \subseteq TablePeers(connected_clients')]_vars

\* The connection of a subscribed client was closed, the event loop took the
\* event, and the client's row is still in the table.
C9_Witness ==
    \E p \in closed :
       /\ p \notin conn
       /\ p \in TablePeers(connected_clients)

\* The messages of kind k the server has sent to the clients' handlers.
Pushed(k) == SumOver([c \in Clients |-> pending[c][k] + delivered[c][k]], Clients)

\* C11 as stated: whenever a generator's delivery goes through (its lookup
\* finds a handle and its send succeeds), the message has gone to every client
\* registered under "client_handler" at that moment.
C11_Original ==
    (last_emit.lookup = "found" /\ last_emit.send = "sent") =>
       last_emit.targets = last_emit.registered

\* C12: a delivery whose lookup misses or fails, or whose send fails, sends
\* nothing and is not made up for (each iteration ends in one send or in one
\* skip), and no generator loop ever leaves its loop.
C12_SkippedDeliveries ==
    /\ \A g \in Generators :
          /\ gen[g].running
          /\ Pushed(KindOf(g)) + skipped[g] = gen[g].iter
    /\ (last_emit.lookup \in {"miss", "error"} \/ last_emit.send = "failed") =>
          last_emit.targets = {}

\* A generator loop whose first delivery was skipped has run a second
\* iteration, and that one reached a client.
C12_Witness ==
    \E g \in Generators :
       /\ gen[g].iter = 2
       /\ skipped[g] = 1
       /\ last_emit.gen = g
       /\ last_emit.targets /= {}
       /\ gen[g].running

AnySkipped == \E g \in Generators : skipped[g] > 0

\* C13 as stated: with the clients' handlers registered and every delivery
\* going through (none skipped), a message of each of the four kinds is
\* eventually pushed by the server.
C13_Original ==
    \A k \in NotificationKinds : <>(Pushed(k) > 0 \/ AnySkipped)

\* C14: a handler's notification_count is the number of messages it has
\* handled, of whatever kind.
C14_CountsEveryEvent ==
    \A c \in Clients :
       notification_count[c] = SumOver(delivered[c], NotificationKinds)

\* One handler has taken a message of each of the four kinds and counts 4.
C14_Witness ==
    \E c \in Clients :
       /\ \A k \in NotificationKinds : delivered[c][k] = 1
       /\ notification_count[c] = 4

\* C17: the event loop of every peer is in its loop and ready to take the
\* next event, whatever events it has taken.
C17_LoopsNeverEnd ==
    /\ \A p \in Peers : looping[p]
    /\ ENABLED ServerEventLoop
    /\ \A c \in Clients : ENABLED ClientEventLoop(c)

\* The server's loop has taken an inbound connection error and the loops of
\* both clients an outbound dial error and a closed connection.
C17_Witness ==
    /\ last_error[Server] = "IncomingConnectionError"
    /\ \A c \in Clients : last_error[c] = "OutgoingConnectionError" /\ ~client_conn[c]
    /\ \A p \in Peers : looping[p]

IsSubscribe(id) == hist[id].type = "SubscribeDataStream"

\* C15: every SubscribeDataStream request the notification service handles
\* is answered with a subscription id and leaves the client's row in the
\* table, whether or not the server has a connection to the client or finds
\* a push-endpoint of it.
C15_SubscribeAlwaysSucceeds ==
    \A id \in DOMAIN hist :
       IsSubscribe(id) /\ hist[id].handled = 1 =>
          /\ hist[id].produced = 1
          /\ id[1] \in TablePeers(connected_clients)
          /\ \A body \in ReplyBodies(id) :
                body \in { SubscriptionId(id[1], n) : n \in 0..(event_count - 1) }

\* A client the server has no connection to and finds no push-endpoint of has
\* taken the subscription id "sub-<peer>-0".
C15_Witness ==
    \E id \in DOMAIN hist :
       /\ IsSubscribe(id)
       /\ id[1] \notin conn
       /\ id[1] \notin Providers("client_handler")
       /\ Completed(id)
       /\ call[id[1]].result = Ok(SubscriptionId(id[1], 0))
       /\ id[1] \in TablePeers(connected_clients)

\* C16: when the client's lookup of "notification" returns without an error
\* and nothing is registered under the name, the client goes on to its
\* calculation loop with its handler still registered and without having sent
\* a request.
C16_MissingNotificationIsNotFatal ==
    [][\A c \in Clients :
          (/\ pc[c] = "lookup"
           /\ pc'[c] /= "lookup"
           /\ Providers("notification") = {}
           /\ failed_at'[c] = "none")
          => /\ pc'[c] = "round"
             /\ [name |-> "client_handler", peer |-> c] \in registry'
             /\ reqs' = reqs
             /\ nextId'[c] = nextId[c]]_vars

\* A client that found no notification service, and so never subscribed, is
\* in its calculation loop with a calculation answered.
C16_Witness ==
    \E c \in Clients :
       /\ pc[c] \in {"calc", "await_calc"}
       /\ failed_at[c] = "none"
       /\ c \in Providers("client_handler")
       /\ \A id \in DOMAIN hist : id[1] = c => ~IsSubscribe(id)
       /\ \E id \in DOMAIN hist : id[1] = c /\ hist[id].observed = 1

\* C18: however a calculation call ends (a reply, the empty divide result or
\* an error), the client goes on with the next calculation of the round, or
\* with the next round after the last one, and the event loops are untouched.
C18_FailureIsLocal ==
    [][\A c \in Clients :
          (pc[c] = "await_calc" /\ pc'[c] /= "await_calc")
          => /\ pc'[c] = (IF idx[c] < Len(calculations) THEN "calc" ELSE "round")
             /\ idx'[c] = (IF idx[c] < Len(calculations) THEN idx[c] + 1 ELSE idx[c])
             /\ looping' = looping]_vars

\* A client whose call ended in Err, and whose divide by zero was answered
\* with the empty result, has issued a later call after each of them and has
\* started a second round.
C18_Witness ==
    \E c \in Clients :
       /\ \E i \in DOMAIN hist, j \in DOMAIN hist :
             /\ i[1] = c /\ j[1] = c /\ i[2] < j[2]
             /\ hist[i].type \in CalcTypes /\ hist[i].err
             /\ hist[j].type \in CalcTypes
       /\ \E i \in DOMAIN hist, j \in DOMAIN hist :
             /\ i[1] = c /\ j[1] = c /\ i[2] < j[2]
             /\ IsDivide(i) /\ FEq(hist[i].msg.b, Zero) /\ hist[i].observed = 1
             /\ hist[j].type \in CalcTypes
       /\ round[c] = 2
       /\ \A p \in Peers : looping[p]

\* C19: a startup step that returned an error ends its main there: a server
\* whose transport or calculator registration failed has registered no
\* notification service, a failed server has no generator loop that can run,
\* and a failed client has registered nothing after the failure and sent no
\* request.
C19_StartupErrorsAreFatal ==
    /\ failed_at[Server] /= "none" =>
          /\ server_pc = "failed"
          /\ ~ENABLED push_server_status_loop
          /\ ~ENABLED push_task_completion_loop
          /\ ~ENABLED broadcast_system_events_loop
    /\ failed_at[Server] \in {"new", "register_calculator"} =>
          Server \notin Providers("notification")
    /\ failed_at[Server] = "new" => Server \notin Providers("calculator")
    /\ \A c \in Clients :
          /\ failed_at[c] /= "none" => pc[c] = "failed" /\ nextId[c] = 0
          /\ failed_at[c] \in {"new", "register"} =>
                c \notin Providers("client_handler")

\* The server's registration of the calculator failed while one client came
\* through its setup and another failed to dial.
C19_Witness ==
    /\ failed_at[Server] = "register_calculator"
    /\ server_pc = "failed"
    /\ \E c \in Clients : failed_at[c] = "new"
    /\ \E c \in Clients : pc[c] = "round"

\* The endpoints the items of a stream name.
StreamPeers(stream) == { stream[i].val : i \in { j \in DOMAIN stream : stream[j].ok } }

\* C20: the stream of lookup_all, when no item is an error, names every
\* endpoint registered under the name, so that a caller scanning it finds
\* another endpoint whenever one is registered; a lookup-one names at most one
\* of them; and find_calculator_service returns at most one endpoint: one that
\* was registered, never the caller's own.
C20_LookupAllAndOne ==
    /\ \A stream \in LookupAll("calculator") :
          /\ StreamPeers(stream) \subseteq Providers("calculator")
          /\ (\A i \in DOMAIN stream : stream[i].ok) =>
                StreamPeers(stream) = Providers("calculator")
    /\ \A c \in Clients :
          (/\ found[c].called
           /\ \A i \in DOMAIN found[c].stream : found[c].stream[i].ok
           /\ found[c].registered \ {c} /= {})
          => found[c].result.some
    /\ \A r \in LookupOutcomes("calculator") :
          LookupFound(r) => r.val.val \in Providers("calculator")
    /\ \A c \in Clients :
          found[c].called =>
             IF found[c].result.some
             THEN /\ found[c].result.val /= c
                  /\ found[c].result.val \in found[c].registered
             ELSE \A i \in DOMAIN found[c].stream :
                     (\A j \in 1..i : found[c].stream[j].ok) =>
                        found[c].stream[i].val = c

\* With the server and the caller itself registered under "calculator", and
\* the stream yielding the caller's own handle first, the caller was handed
\* the server's.
C20_Witness ==
    \E c \in Clients :
       /\ found[c].called
       /\ {Server, c} \subseteq found[c].registered
       /\ found[c].stream[1] = Ok(c)
       /\ found[c].result = Some(Server)

\* C21: while no peer has registered "calculator", the stream of lookup_all
\* names no endpoint and find_calculator_service returns None; while no peer
\* has registered "notification", a lookup that returns without an error
\* finds nothing and the client takes the not-found branch, on to its demo
\* loop.
C21_UnregisteredNameFindsNothing ==
    [][\A c \in Clients :
          /\ (found'[c] /= found[c] /\ Providers("calculator") = {}) =>
                /\ found'[c].result = None
                /\ StreamPeers(found'[c].stream) = {}
          /\ Providers("notification") = {} =>
                /\ \A r \in LookupOutcomes("notification") : ~LookupFound(r)
                /\ (pc[c] = "lookup" /\ pc'[c] /= "lookup" /\ failed_at'[c] = "none")
                      => pc'[c] = "round"]_vars

\* With neither name registered yet, a client has taken the not-found branch
\* of its notification lookup and its calculator lookup has returned None.
C21_Witness ==
    \E c \in Clients :
       /\ Providers("calculator") = {}
       /\ Providers("notification") = {}
       /\ pc[c] = "round"
       /\ found[c].called
       /\ found[c].registered = {}
       /\ found[c].result = None

\* The first item of a stream that names an endpoint other than c, if any.
OtherItems(stream, c) ==
    { i \in DOMAIN stream : stream[i].ok /\ stream[i].val /= c }

FirstOther(stream, c) ==
    IF OtherItems(stream, c) = {} THEN None
    ELSE Some(stream[CHOOSE i \in OtherItems(stream, c) :
                        \A j \in OtherItems(stream, c) : i <= j].val)

\* C26: find_calculator_service returns the first endpoint of the stream
\* that is not the caller's own, whatever items (the caller's own entries,
\* Err items) come before it, and None only when the stream names no such
\* endpoint.
C26_Original ==
    \A c \in Clients :
       found[c].called => found[c].result = FirstOther(found[c].stream, c)

C24_OneDialOnly ==
    \A c \in Clients :
       /\ dials[c] = (IF pc[c] = "new" \/ failed_at[c] = "new" THEN 0 ELSE 1)
       /\ last_error[c] = "OutgoingConnectionError" =>
             dials[c] = 1 /\ looping[c] /\ ENABLED ClientEventLoop(c)

\* A client whose dial failed and whose connection never came up has taken
\* the dial error in its loop; its one dial is the one of its construction.
C24_Witness ==
    \E c \in Clients :
       /\ last_error[c] = "OutgoingConnectionError"
       /\ ~client_conn[c]
       /\ pc[c] = "register"
       /\ dials[c] = 1

\* C25: a client that has entered run_demo_mode eventually returns from it,
\* after its fixed number of rounds.
C25_Original ==
    \A c \in Clients : (pc[c] = "round") ~> (pc[c] = "done")

\* The rows table holds for peer.
RowSet(table, peer) == { table[i] : i \in RowsOf(table, peer) }

\* The subscribe requests of peer handled in the step.
HandledNow(peer) ==
    { id \in DOMAIN hist :
         /\ IsSubscribe(id)
         /\ id[1] = peer
         /\ hist'[id].handled = hist[id].handled + 1 }

\* C27: after every step the subscription table holds at most one row per
\* client peer and every row records exactly one stream type; the step that
\* handles a client's subscribe leaves that client's row with the stream type
\* of the request, whatever the row recorded before, and no other step
\* changes the row.
C27_RowHoldsLastStreamType ==
    [][\A p \in Clients :
          /\ Cardinality(RowsOf(connected_clients', p)) <= 1
          /\ \A row \in RowSet(connected_clients', p) : Len(row.subscribed_streams) = 1
          /\ \A id \in HandledNow(p) :
                { row.subscribed_streams : row \in RowSet(connected_clients', p) }
                   = { << hist[id].msg.stream_type >> }
          /\ HandledNow(p) = {} =>
                RowSet(connected_clients', p) = RowSet(connected_clients, p)]_vars

\* A client's two subscribes, for different stream types, have both been
\* handled, and the table holds one row for it, with one stream type.
C27_Witness ==
    \E c \in Clients :
       /\ Cardinality(HandledSubs(c)) = 2
       /\ \E i \in HandledSubs(c), j \in HandledSubs(c) :
             hist[i].msg.stream_type /= hist[j].msg.stream_type
       /\ Cardinality(RowSet(connected_clients, c)) = 1
       /\ \A row \in RowSet(connected_clients, c) : Len(row.subscribed_streams) = 1

\* The number of times the subscribe handler has run.
SubscribesHandled ==
    SumOver([id \in { i \in DOMAIN hist : IsSubscribe(i) } |-> hist[id].handled],
            { i \in DOMAIN hist : IsSubscribe(i) })

\* C29: the event counter is the number of subscribe requests handled; the
\* n-th id the service returned carries the counter value n - 1 and the
\* peer of a client; and the ids returned are pairwise distinct, also those
\* returned to one client.
C29_SubscriptionIdsDistinct ==
    /\ event_count = SubscribesHandled
    /\ Len(issued) = event_count
    /\ \A i \in DOMAIN issued :
          \E c \in Clients : issued[i] = SubscriptionId(c, i - 1)
    /\ \A i \in DOMAIN issued, j \in DOMAIN issued :
          i /= j => issued[i] /= issued[j]

\* One client has subscribed twice and holds its second id, "sub-<peer>-1",
\* after "sub-<peer>-0".
C29_Witness ==
    \E c \in Clients :
       /\ issued = << SubscriptionId(c, 0), SubscriptionId(c, 1) >>
       /\ call[c].st = "done"
       /\ call[c].result = Ok(SubscriptionId(c, 1))

CalcIds == { id \in DOMAIN hist : hist[id].type \in CalcTypes }

\* The number of times a handler of the calculator has run (a request is
\* handled at most once).
CalcsHandled == Cardinality({ id \in CalcIds : hist[id].handled = 1 })

\* The calculator requests handled in the step.
CalcHandledNow ==
    { id \in CalcIds : hist'[id].handled = hist[id].handled + 1 }

\* C30: with the clients sending their requests concurrently, the request
\* counter is the number of requests the calculator has handled; a step
\* handles one request and raises the counter by exactly one, whatever the
\* type of the request and also when a Divide is answered with the empty
\* result, so that every request sees a counter value of its own; and no
\* other step changes the counter.
C30_CounterCountsRequests ==
    [][/\ \A id \in CalcIds : hist[id].handled <= 1
       /\ request_count = CalcsHandled
       /\ request_count' = CalcsHandled'
       /\ CalcHandledNow /= {} =>
             /\ Cardinality(CalcHandledNow) = 1
             /\ request_count' = request_count + 1
       /\ CalcHandledNow = {} => request_count' = request_count]_vars

\* Requests of both clients have been handled, among them a Divide by zero
\* answered with the empty result, while a further request of a client waits
\* in the mailbox; the counter is the number handled.
C30_Witness ==
    /\ \A c \in Clients : \E id \in CalcIds : id[1] = c /\ hist[id].handled = 1
    /\ \E id \in CalcIds :
          /\ IsDivide(id) /\ FEq(hist[id].msg.b, Zero) /\ hist[id].handled = 1
          /\ \E e \in reqs : e.id[1] /= id[1] /\ e.type \in CalcTypes
    /\ request_count = CalcsHandled
    /\ request_count >= 6

\* The generator loops that ran an iteration in the step.
IteratedNow == { g \in Generators : gen'[g].iter = gen[g].iter + 1 }

\* C28: whatever the subscription table holds, an iteration of a generator
\* loop whose lookup of "client_handler" finds a handle and whose send
\* succeeds delivers its message to one endpoint registered under the name,
\* and any other iteration delivers to none; the iteration neither reads nor
\* writes the table, and a step that changes the table changes nothing of
\* the generators or of what has been delivered.
C28_PushIgnoresSubscriptions ==
    [][/\ \A g \in IteratedNow :
             /\ last_emit'.gen = g
             /\ IF last_emit'.lookup = "found" /\ last_emit'.send = "sent"
                THEN /\ Cardinality(last_emit'.targets) = 1
                     /\ last_emit'.targets \subseteq Providers("client_handler")
                ELSE last_emit'.targets = {}
             /\ pending' = [c \in Clients |-> [k \in NotificationKinds |->
                               IF c \in last_emit'.targets /\ k = KindOf(g)
                               THEN pending[c][k] + 1 ELSE pending[c][k]]]
             /\ connected_clients' = connected_clients
       /\ connected_clients' /= connected_clients =>
             /\ IteratedNow = {}
             /\ pending' = pending
             /\ gen' = gen]_vars

\* A client that registered its handler and never sent a subscribe request
\* has a notification in its mailbox, and so has a client with a row in the
\* subscription table.
C28_Witness ==
    \E c \in Clients, d \in Clients :
       /\ nextId[c] = 0
       /\ c \notin TablePeers(connected_clients)
       /\ \E k \in NotificationKinds : pending[c][k] > 0
       /\ d \in TablePeers(connected_clients)
       /\ \E k \in NotificationKinds : pending[d][k] > 0

\* The subscribe calls of client c that ended in Err.
FailedSubs(c) ==
    { id \in DOMAIN hist : IsSubscribe(id) /\ id[1] = c /\ hist[id].err }

\* C31: a client whose subscribe call ended in Err, or whose lookup of the
\* notification service returned an error, has left main with the error: it
\* has started no round of run_demo_mode and has sent no calculation, and it
\* stays so.
C31_SubscribeFailureIsFatal ==
    [][\A c \in Clients :
          /\ (FailedSubs(c) /= {} \/ failed_at[c] = "lookup") =>
                /\ pc[c] = "failed"
                /\ pc'[c] = "failed"
                /\ round[c] = 0
                /\ round'[c] = 0
                /\ \A id \in CalcIds : id[1] /= c
                /\ nextId'[c] = nextId[c]
          /\ failed_at[c] = "lookup" => nextId[c] = 0
          /\ (pc[c] = "await_sub" /\ pc'[c] /= "await_sub") =>
                pc'[c] = (IF call'[c].result.ok THEN "round" ELSE "failed")]_vars

\* One client's subscribe call was handled by the service that it had found
\* and ended in Err all the same; the other client's lookup returned an
\* error; neither has started a round.
C31_Witness ==
    \E c \in Clients, d \in Clients :
       /\ \E id \in FailedSubs(c) : hist[id].handled = 1
       /\ pc[c] = "failed"
       /\ failed_at[d] = "lookup"
       /\ pc[d] = "failed"
       /\ round[c] = 0 /\ round[d] = 0

\* The calculator requests client c has issued.
CalcsIssued(c) == { id \in CalcIds : id[1] = c }

\* The remote providers of "calculator" client c can be handed.
RemoteCalculators(c) == Providers("calculator") \ {c}

\* C32: every round of run_demo_mode looks the calculator up at that moment.
\* A round begun while no remote peer is registered under "calculator"
\* issues no calculation and leaves the client at the head of the loop with
\* the round counted; a round goes on to its calculations only when a remote
\* provider is registered as the round begins, starting with the first of the
\* five; and whenever a remote provider is registered a client at the head
\* of the loop has a round that finds it, however many rounds found none
\* before.  A calculation is issued only inside a round that found a
\* provider.
C32_EachRoundLooksUpAfresh ==
    [][\A c \in Clients :
          /\ round'[c] /= round[c] =>
                /\ pc[c] = "round"
                /\ round'[c] = round[c] + 1
                /\ CalcsIssued(c)' = CalcsIssued(c)
                /\ reqs' = reqs
                /\ pc'[c] \in {"round", "calc"}
                /\ RemoteCalculators(c) = {} => pc'[c] = "round"
                /\ pc'[c] = "calc" => RemoteCalculators(c) /= {} /\ idx'[c] = 1
          /\ (pc[c] = "round" /\ RemoteCalculators(c) /= {}
                 /\ SumOver(round, Clients) < MaxRounds) =>
                ENABLED (DemoRound(c) /\ pc'[c] = "calc")
          /\ CalcsIssued(c)' /= CalcsIssued(c) =>
                pc[c] = "calc" /\ pc'[c] = "await_calc" /\ round'[c] = round[c]]_vars

\* C32 happens: a client's first round found no provider and issued nothing,
\* and its second round found the server's calculator and has issued its
\* first calculation.
C32_Witness ==
    \E c \in Clients :
       /\ round[c] = 2
       /\ pc[c] = "await_calc"
       /\ idx[c] = 1
       /\ Cardinality(CalcsIssued(c)) = 1
       /\ Server \in RemoteCalculators(c)

\* The subscribe requests client c has sent.
SubsSent(c) == { id \in DOMAIN hist : IsSubscribe(id) /\ id[1] = c }

\* Client c's register("client_handler") call has returned Ok.
HandlerRegistered(c) ==
    c \in Providers("client_handler") /\ failed_at[c] /= "register"

\* C33: a client is past its register call, with the call returned Ok and
\* its push-endpoint under "client_handler", whenever it is at the lookup of
\* the notification service, at the subscribe request or waiting for its
\* answer, whenever a subscribe request of it exists, and whenever the
\* server's table holds a row for it; and a step in which the server handles
\* a client's subscribe request starts from a state where that holds.
C33_RegisteredBeforeSubscribed ==
    [][\A c \in Clients :
          /\ (\/ pc[c] \in {"lookup", "subscribe", "await_sub"}
              \/ SubsSent(c) /= {}
              \/ c \in TablePeers(connected_clients)) => HandlerRegistered(c)
          /\ (\E id \in SubsSent(c) : hist'[id].handled /= hist[id].handled) =>
                /\ HandlerRegistered(c)
                /\ c \in TablePeers(connected_clients')
          /\ (pc[c] = "register" /\ pc'[c] = "lookup") =>
                /\ c \in Providers("client_handler")'
                /\ SubsSent(c) = {}]_vars

\* C33 happens: the server has handled a client's subscribe request and
\* holds its row, and the client's push-endpoint is registered.
C33_Witness ==
    \E c \in Clients :
       /\ \E id \in SubsSent(c) : hist[id].handled = 1
       /\ c \in TablePeers(connected_clients)
       /\ HandlerRegistered(c)

====
